---- MODULE Spec2Model ----
(***************************************************************************)
(* Model of the message-intake service of server.js: the sanitizer, the    *)
(* bounded in-memory message store, the access guard, and the request      *)
(* handlers POST /message, GET /read_messages and POST /clear_messages.    *)
(*                                                                         *)
(* The helmet and morgan middleware, the body parser, GET /health and the  *)
(* 404 handler touch neither the store nor the message log and are left    *)
(* out; the body parser shows as the value of req.body.                    *)
(*                                                                         *)
(* Specifications: Spec (the three routes, varied requests), SpecFill (the *)
(* store filled beyond its capacity), SpecFaults (the intake handler when  *)
(* its calls may throw), SpecConsumer (a holder of the array returned by   *)
(* getAllMessages), SpecSanitize (sanitizeInput on its own), SpecLogger    *)
(* (the routes with the callbacks of the logger's asynchronous writes),    *)
(* SpecVariant (the intake route of src/unnamed/part_000, a variant of the *)
(* server without the message store).                                      *)
(*                                                                         *)
(* A JavaScript string is a sequence of tokens.  A token is one character, *)
(* or a run of characters of a string literal of the code that holds none  *)
(* of the characters the sanitizer or JSON.stringify replace               *)
(* (< > " ' $ ; \): the character-wise operations leave such a run as it   *)
(* is.  Strings that come from a request are sequences of characters.      *)
(* A JavaScript value is a record with a type tag t and one payload field  *)
(* per type (s: the tokens of a string, n: a number or boolean, a: the     *)
(* string elements of an array), so that any two values can be compared.   *)
(***************************************************************************)
EXTENDS Integers, Sequences, FiniteSets, TLC

\* ------------------------------------------------------------- bounds

\* Longest input string handed to the sanitizer in SpecSanitize.
MaxLen == 3
\* Requests handled in one behaviour of Spec.
MaxRequests == 2
\* Mutations a consumer applies to one array returned by getAllMessages.
MaxMutations == 1
\* Additions beyond the capacity in one behaviour of SpecFill.
MaxOverflow == 2
\* Failing calls in one behaviour of SpecFill.
MaxFillFaults == 1

\* ------------------------------------------------------ JavaScript values

Str(s) == [t |-> "string", s |-> s, n |-> 0, a |-> << >>]
Num(n) == [t |-> "number", s |-> << >>, n |-> n, a |-> << >>]
Bool(b) == [t |-> "boolean", s |-> << >>, n |-> IF b THEN 1 ELSE 0, a |-> << >>]
Arr(a) == [t |-> "array", s |-> << >>, n |-> 0, a |-> a]
Null == [t |-> "null", s |-> << >>, n |-> 0, a |-> << >>]
Undefined == [t |-> "undefined", s |-> << >>, n |-> 0, a |-> << >>]

\* typeof v === 'string'
IsString(v) == v.t = "string"

\* The truthiness the || operator tests: '', 0, false, null and undefined
\* are falsy, every other value (an array too) is truthy.
Truthy(v) ==
  CASE v.t = "string" -> v.s # << >>
    [] v.t = "number" -> v.n # 0
    [] v.t = "boolean" -> v.n = 1
    [] v.t = "array" -> TRUE
    [] OTHER -> FALSE

\* a || b
Or(a, b) == IF Truthy(a) THEN a ELSE b

\* ------------------------------------------------------------- strings

RECURSIVE Digits(_)
\* The decimal digits of a natural number.
Digits(n) ==
  LET d == <<"0", "1", "2", "3", "4", "5", "6", "7", "8", "9">>
  IN IF n < 10 THEN <<d[n + 1]>> ELSE Digits(n \div 10) \o <<d[(n % 10) + 1]>>

RECURSIVE ReplaceAll(_, _, _)
\* String.prototype.replace with a global one-character pattern: every
\* occurrence of character c in s is replaced by the string rep.
ReplaceAll(s, c, rep) ==
  IF s = << >> THEN << >>
  ELSE (IF Head(s) = c THEN rep ELSE <<Head(s)>>) \o ReplaceAll(Tail(s), c, rep)

\* Whether character c occurs in string s.
Includes(s, c) == \E i \in 1..Len(s) : s[i] = c

RECURSIVE Join(_, _)
\* The strings of a joined with the separator sep.
Join(a, sep) ==
  IF a = << >> THEN << >>
  ELSE IF Len(a) = 1 THEN a[1]
  ELSE a[1] \o sep \o Join(Tail(a), sep)

\* JSON's quoting of a string: double quotes around it, with the double
\* quote and the backslash escaped by a backslash.
JSONQuote(s) ==
  <<"\"">> \o ReplaceAll(ReplaceAll(s, "\\", <<"\\", "\\">>), "\"", <<"\\", "\"">>) \o <<"\"">>

\* JSON.stringify(v): a string value, or undefined for undefined.
JSONStringify(v) ==
  CASE v.t = "string" -> Str(JSONQuote(v.s))
    [] v.t = "number" -> Str(Digits(v.n))
    [] v.t = "boolean" -> Str(IF v.n = 1 THEN <<"t", "r", "u", "e">> ELSE <<"f", "a", "l", "s", "e">>)
    [] v.t = "null" -> Str(<<"n", "u", "l", "l">>)
    [] v.t = "array" -> Str(<<"[">> \o Join([i \in 1..Len(v.a) |-> JSONQuote(v.a[i])], <<",">>) \o <<"]">>)
    [] OTHER -> Undefined

\* The text a template literal `${v}` interpolates for v.
TemplateText(v) ==
  CASE v.t = "string" -> v.s
    [] v.t = "number" -> Digits(v.n)
    [] v.t = "boolean" -> IF v.n = 1 THEN <<"t", "r", "u", "e">> ELSE <<"f", "a", "l", "s", "e">>
    [] v.t = "null" -> <<"n", "u", "l", "l">>
    [] v.t = "array" -> Join(v.a, <<",">>)
    [] OTHER -> <<"u", "n", "d", "e", "f", "i", "n", "e", "d">>

\* ----------------------------------------------------------- sanitizer

\* An escaper that replaces the ampersand too.
EscapeChain_ampersand(s) ==
  LET s0 == ReplaceAll(s, "&", <<"&", "a", "m", "p", ";">>)
      s1 == ReplaceAll(s0, "<", <<"&", "l", "t", ";">>)
      s2 == ReplaceAll(s1, ">", <<"&", "g", "t", ";">>)
      s3 == ReplaceAll(s2, "\"", <<"&", "q", "u", "o", "t", ";">>)
      s4 == ReplaceAll(s3, "'", <<"&", "#", "3", "9", ";">>)
      s5 == ReplaceAll(s4, "$", <<"&", "#", "3", "6", ";">>)
  IN ReplaceAll(s5, ";", <<"&", "#", "5", "9", ";">>)

\* The six replace calls of sanitizeInput, in the order the code chains them.
EscapeChain(s) ==
  LET s1 == ReplaceAll(s, "<", <<"&", "l", "t", ";">>)
      s2 == ReplaceAll(s1, ">", <<"&", "g", "t", ";">>)
      s3 == ReplaceAll(s2, "\"", <<"&", "q", "u", "o", "t", ";">>)
      s4 == ReplaceAll(s3, "'", <<"&", "#", "3", "9", ";">>)
      s5 == ReplaceAll(s4, "$", <<"&", "#", "3", "6", ";">>)
  IN ReplaceAll(s5, ";", <<"&", "#", "5", "9", ";">>)

\* sanitizeInput(input): JSON.stringify(input) for a value that is not a
\* string, the escaped string otherwise.  The result is a JavaScript value.
sanitizeInput(input) ==
  IF ~IsString(input) THEN JSONStringify(input) ELSE Str(EscapeChain(input.s))

\* ------------------------------------------------------- string literals

\* 'No message provided'
Placeholder ==
  <<"No message provided">>
\* 'IP: '
IpPrefix ==
  <<"IP: ">>
\* ' | Message: '
MessageInfix ==
  <<" | Message: ">>
\* 'ERROR: '
ErrorPrefix ==
  <<"ERROR: ">>
\* The message of the TypeError that reading req.body.message raises when
\* req.body is undefined.
BodyTypeError ==
  <<"Cannot read properties of undefined (reading ", "'", "message", "'", ")">>

\* --------------------------------------------------------------- state

VARIABLES
  messages,   \* messageStore.messages: the records held, oldest first
  nextRef,    \* the number of record objects created so far (object identity)
  now,        \* the last reading of the millisecond clock
  nReq,       \* POST /message and POST /clear_messages requests handled
  nFaults,    \* requests in which a call failed
  lastReq,    \* the request handled last
  resp,       \* the response to the request handled last
  logged,     \* what the request handled last wrote to the logs
  added,      \* history: the records added since the store was last empty by construction or clear
  held,       \* the array a consumer got from getAllMessages, with its mutation count
  pc,         \* SpecSanitize: "input" before the call of sanitizeInput, "output" after it
  sanIn,      \* SpecSanitize: the value passed to sanitizeInput
  sanOut      \* SpecSanitize: the value sanitizeInput returned

vars == <<messages, nextRef, now, nReq, nFaults, lastReq, resp, logged, added, held, pc, sanIn, sanOut>>

storeVars == <<messages, nextRef, now, nReq, nFaults, lastReq, resp, logged, added, held>>
sanVars == <<pc, sanIn, sanOut>>

\* --------------------------------------------------------- message store

MAX_MESSAGES == 20

\* The record addMessage builds: timestamp from the clock reading t1, id
\* from the later reading t2 and the random suffix r.  ref is the identity
\* of the JavaScript object.
NewRecord(message, t1, t2, r, ref) ==
  [ref |-> ref, timestamp |-> t1, content |-> message, id |-> [time |-> t2, suffix |-> r]]

\* An addMessage that appends without evicting.
addMessage_noEvict(msgs, message, t1, t2, r, ref) ==
  Append(msgs, NewRecord(message, t1, t2, r, ref))

\* An addMessage that evicts the newest record of a full store.
addMessage_evictNewest(msgs, message, t1, t2, r, ref) ==
  LET kept == IF Len(msgs) >= MAX_MESSAGES THEN SubSeq(msgs, 1, Len(msgs) - 1) ELSE msgs
  IN Append(kept, NewRecord(message, t1, t2, r, ref))

\* An addMessage that pushes the new record twice.
addMessage_twice(msgs, message, t1, t2, r, ref) ==
  LET kept == IF Len(msgs) >= MAX_MESSAGES THEN Tail(msgs) ELSE msgs
  IN Append(Append(kept, NewRecord(message, t1, t2, r, ref)), NewRecord(message, t1, t2, r, ref))

\* An addMessage that stamps the records already held with the new timestamp.
addMessage_restamp(msgs, message, t1, t2, r, ref) ==
  LET kept == IF Len(msgs) >= MAX_MESSAGES THEN Tail(msgs) ELSE msgs
  IN Append([i \in 1..Len(kept) |-> [kept[i] EXCEPT !.timestamp = t1]],
            NewRecord(message, t1, t2, r, ref))

\* An addMessage that drops the new record when the store is full.
addMessage_dropWhenFull(msgs, message, t1, t2, r, ref) ==
  IF Len(msgs) >= MAX_MESSAGES THEN msgs ELSE Append(msgs, NewRecord(message, t1, t2, r, ref))

\* messageStore.addMessage(message): the array after the call.
addMessage(msgs, message, t1, t2, r, ref) ==
  LET kept == IF Len(msgs) >= MAX_MESSAGES THEN Tail(msgs) ELSE msgs
  IN Append(kept, NewRecord(message, t1, t2, r, ref))

\* A getAllMessages that returns the store's own array.
getAllMessages_noCopy(msgs) == [alias |-> TRUE, items |-> msgs]

\* messageStore.getAllMessages(): a new array (alias FALSE: not the store's
\* own array) holding the same record objects.
getAllMessages(msgs) == [alias |-> FALSE, items |-> msgs]

\* A clear that reports success and leaves the array as it is.
clear_keeps(msgs) ==
  [messages |-> msgs, result |-> [success |-> TRUE, message |-> "Message store cleared"]]

\* messageStore.clear(): the array after the call and the value returned.
clear(msgs) ==
  [messages |-> << >>, result |-> [success |-> TRUE, message |-> "Message store cleared"]]

\* Array.prototype.reverse
Reverse(a) == [i \in 1..Len(a) |-> a[Len(a) + 1 - i]]

\* ---------------------------------------------------------------- logger

\* logMessage(message) at clock reading t: the entry appended to
\* messages.log and printed on the console.
\* fs.appendFile is asynchronous: the write of the entry is pending until its
\* callback runs.
logMessage(message, t) ==
  [ch |-> "messages.log", timestamp |-> t, message |-> message, write |-> "pending"]

\* console.error(label, error): the raw error message on the error stream.
consoleError(error) ==
  [ch |-> "stderr", timestamp |-> 0, message |-> TemplateText(error), write |-> "none"]

WriteErrorLabel == <<"Error writing to message log:">>

\* The callback of fs.appendFile for a pending entry: with an error it
\* prints the error on the error stream, and it does nothing else.
appendFileCallback(entry, err) ==
  IF err
  THEN <<[entry EXCEPT !.write = "failed"],
         [ch |-> "stderr", timestamp |-> 0, message |-> WriteErrorLabel, write |-> "none"]>>
  ELSE <<[entry EXCEPT !.write = "written"]>>

\* ---------------------------------------------------------- access guard

\* users: { 'admin': 'lifelink' }
Users == {<<"admin", "lifelink">>}

NoCredential == [present |-> FALSE, user |-> "", password |-> ""]
Credential(u, p) == [present |-> TRUE, user |-> u, password |-> p]

\* A guard that compares the user name only.
messageAuth_userOnly(cred) ==
  cred.present /\ \E u \in Users : u[1] = cred.user

\* messageAuth: basicAuth lets a request pass when it carries a credential
\* whose user and password both equal a configured pair.
messageAuth(cred) ==
  cred.present /\ \E u \in Users : u[1] = cred.user /\ u[2] = cred.password

\* ------------------------------------------------------------- responses

NoResponse ==
  [status |-> 0, kind |-> "none", challenge |-> "", bodyStatus |-> "", bodyMessage |-> "",
   success |-> FALSE, messages |-> << >>, html |-> << >>, count |-> 0, capacity |-> 0]

\* res.status(code).json({ status, message })
JsonStatus(code, st, msg) ==
  [NoResponse EXCEPT !.status = code, !.kind = "json", !.bodyStatus = st, !.bodyMessage = msg]

\* basicAuth's answer to a request it does not let pass (challenge: true,
\* realm: 'Message Viewer'): 401, a WWW-Authenticate header, an empty body.
Unauthorized ==
  [NoResponse EXCEPT !.status = 401, !.kind = "challenge",
                     !.challenge = "Basic realm=\"Message Viewer\""]

\* The exception left the handler: the handler sent no response of its own.
Escaped == [NoResponse EXCEPT !.kind = "escaped"]

\* ------------------------------------------------------------- requests

\* 'Message store cleared by admin'
ClearedByAdmin ==
  <<"Message store cleared by admin">>

\* A request: its route, whether req.body is defined, req.body.message
\* (Undefined when the field is absent), the x-forwarded-for header
\* (Undefined when absent), req.connection.remoteAddress, the credential of
\* the Authorization header and the Accept header ("" when absent).
Request(route, hasBody, message, xff, remote, cred, accept) ==
  [route |-> route, hasBody |-> hasBody, message |-> message, xff |-> xff, remote |-> remote,
   cred |-> cred, accept |-> accept]

NoRequest == Request("none", FALSE, Undefined, Undefined, Undefined, NoCredential, "")

\* acceptHeader.includes('application/json') for the Accept headers of the model.
AcceptsJson(accept) == accept \in {"application/json", "text/html, application/json"}

\* --------------------------------------------------------- POST /message

\* The combined line the try block composes from the request.
LogEntryOf(req) ==
  LET rawMessage == Or(req.message, Str(Placeholder))
      sanitizedMessage == sanitizeInput(rawMessage)
      clientIp == Or(req.xff, req.remote)
  IN IpPrefix \o TemplateText(sanitizeInput(clientIp)) \o MessageInfix \o TemplateText(sanitizedMessage)

\* The store entry the catch block composes from the error it caught.
ErrorMsgOf(errorMessage) == ErrorPrefix \o TemplateText(sanitizeInput(errorMessage))

\* One run of the POST /message handler on the store msgs.  env is what the
\* run meets: f1, the call of the try block that throws ("add", "log",
\* "send", or "none"), f2 the same for the catch block, em the message of
\* the error thrown, t the first clock reading of the run, u every later
\* one, and r1, r2 the random suffixes of the records created.  A call that
\* throws has no effect.
Intake(msgs, ref, req, env) ==
  LET logEntry == LogEntryOf(req)
      failAt == IF ~req.hasBody THEN "body" ELSE env.f1
      errorMessage == IF ~req.hasBody THEN Str(BodyTypeError) ELSE env.em
      added1 == failAt \in {"log", "send", "none"}
      logged1 == failAt \in {"send", "none"}
      new1 == IF added1 THEN <<NewRecord(logEntry, env.t, env.u, env.r1, ref)>> ELSE << >>
      msgs1 == IF added1 THEN addMessage(msgs, logEntry, env.t, env.u, env.r1, ref) ELSE msgs
      log1 == IF logged1 THEN <<logMessage(logEntry, env.u)>> ELSE << >>
      ref1 == ref + Len(new1)
      errorMsg == ErrorMsgOf(errorMessage)
      added2 == env.f2 # "add"
      logged2 == added2 /\ env.f2 # "log"
      sent2 == logged2 /\ env.f2 # "send"
      t2 == IF added1 THEN env.u ELSE env.t
      new2 == IF added2 THEN <<NewRecord(errorMsg, t2, env.u, env.r2, ref1)>> ELSE << >>
      msgs2 == IF added2 THEN addMessage(msgs1, errorMsg, t2, env.u, env.r2, ref1) ELSE msgs1
      log2 == IF logged2 THEN <<logMessage(errorMsg, env.u)>> ELSE << >>
  IN IF failAt = "none"
     THEN [messages |-> msgs1, created |-> new1, logged |-> log1, read |-> TRUE, failed |-> FALSE,
           resp |-> JsonStatus(200, "success", "Message received and logged")]
     ELSE [messages |-> msgs2, created |-> new1 \o new2, read |-> added1 \/ added2, failed |-> TRUE,
           logged |-> <<consoleError(errorMessage)>> \o log1 \o log2,
           resp |-> IF sent2 THEN JsonStatus(500, "error", "Failed to process message") ELSE Escaped]

\* The array the consumer holds after the store's array became newMsgs: an
\* alias of the store's array shows the store's content.
HeldAfter(newMsgs) == IF held.alias THEN [held EXCEPT !.items = newMsgs] ELSE held

\* app.post('/message', ...)
PostMessage(req, env) ==
  LET out == Intake(messages, nextRef, req, env)
  IN /\ messages' = out.messages
     /\ nextRef' = nextRef + Len(out.created)
     /\ now' = IF out.read THEN env.u ELSE now
     /\ nReq' = nReq + 1
     /\ nFaults' = IF out.failed THEN nFaults + 1 ELSE nFaults
     /\ lastReq' = req
     /\ resp' = out.resp
     /\ logged' = out.logged
     /\ added' = added \o out.created
     /\ held' = HeldAfter(out.messages)
     /\ UNCHANGED sanVars

\* A completion of a write that answers the request again with the error.
WriteDone_failsRequest(i, err) ==
  /\ i \in 1..Len(logged)
  /\ logged[i].write = "pending"
  /\ logged' = SubSeq(logged, 1, i - 1) \o appendFileCallback(logged[i], err)
                  \o SubSeq(logged, i + 1, Len(logged))
  /\ resp' = IF err THEN JsonStatus(500, "error", "Failed to process message") ELSE resp
  /\ UNCHANGED <<messages, nextRef, now, nReq, nFaults, lastReq, added, held, sanVars>>

\* The event loop runs the callback of the i-th log call of the request
\* handled last, whose write ended with an error (err) or without.
WriteDone(i, err) ==
  /\ i \in 1..Len(logged)
  /\ logged[i].write = "pending"
  /\ logged' = SubSeq(logged, 1, i - 1) \o appendFileCallback(logged[i], err)
                  \o SubSeq(logged, i + 1, Len(logged))
  /\ UNCHANGED <<messages, nextRef, now, nReq, nFaults, lastReq, resp, added, held, sanVars>>

\* --------------------------------------- POST /message, src/unnamed/part_000

\* What calling the string bound to logMessage in the try block throws.
NotAFunction == <<"logMessage is not a function">>

\* One run of the POST /message handler of part_000 at clock reading t.  The
\* try block binds the name logMessage to the combined line, a string, and
\* then calls it: the call throws a TypeError, unless reading the message of
\* a request without a body threw before.  The catch block, where the name
\* is the logger, prints the error, logs the ERROR line and answers 500.
IntakeV0(req, t) ==
  LET errorMessage == IF ~req.hasBody THEN Str(BodyTypeError) ELSE Str(NotAFunction)
  IN [logged |-> <<consoleError(errorMessage), logMessage(ErrorMsgOf(errorMessage), t)>>,
      resp |-> JsonStatus(500, "error", "Failed to process message")]

\* app.post('/message', ...) of part_000, which keeps no message store.
PostMessageV0(req, t) ==
  LET out == IntakeV0(req, t)
  IN /\ lastReq' = req
     /\ resp' = out.resp
     /\ logged' = out.logged
     /\ now' = t
     /\ nReq' = nReq + 1
     /\ nFaults' = nFaults + 1
     /\ UNCHANGED <<messages, nextRef, added, held, sanVars>>

\* ------------------------------------------------------ GET /read_messages

\* What res.json({ messages }) serializes of a record.
JsonOfRecord(m) == [id |-> m.id, timestamp |-> m.timestamp, content |-> m.content]

\* What the HTML view renders of a record.
HtmlOfRecord(m) == [timestamp |-> m.timestamp, content |-> m.content]

\* A rendered view whose heading lacks the count and the capacity.
ReadResponse_noHeading(got, accept) ==
  IF AcceptsJson(accept)
  THEN [NoResponse EXCEPT !.status = 200, !.kind = "json",
                          !.messages = [i \in 1..Len(got.items) |-> JsonOfRecord(got.items[i])]]
  ELSE [NoResponse EXCEPT !.status = 200, !.kind = "html",
                          !.html = [i \in 1..Len(got.items) |-> HtmlOfRecord(Reverse(got.items)[i])]]

\* The response of the handler for the array it got from getAllMessages.
ReadResponse(got, accept) ==
  IF AcceptsJson(accept)
  THEN [NoResponse EXCEPT !.status = 200, !.kind = "json",
                          !.messages = [i \in 1..Len(got.items) |-> JsonOfRecord(got.items[i])]]
  ELSE [NoResponse EXCEPT !.status = 200, !.kind = "html",
                          !.count = Len(got.items), !.capacity = MAX_MESSAGES,
                          !.html = [i \in 1..Len(got.items) |-> HtmlOfRecord(Reverse(got.items)[i])]]

\* The store's array after the handler: the HTML view reverses, in place,
\* the array it got, which changes the store only if that array is the
\* store's own.
StoreAfterRead(got, accept) ==
  IF ~AcceptsJson(accept) /\ got.alias THEN Reverse(messages) ELSE messages

\* app.get('/read_messages', messageAuth, ...)
ReadMessages(req) ==
  /\ lastReq' = req
  /\ IF messageAuth(req.cred)
     THEN LET got == getAllMessages(messages)
          IN /\ resp' = ReadResponse(got, req.accept)
             /\ messages' = StoreAfterRead(got, req.accept)
             /\ held' = HeldAfter(StoreAfterRead(got, req.accept))
     ELSE /\ resp' = Unauthorized
          /\ UNCHANGED <<messages, held>>
  /\ logged' = << >>
  /\ UNCHANGED <<nextRef, now, nReq, nFaults, added, sanVars>>

\* ---------------------------------------------------- POST /clear_messages

\* app.post('/clear_messages', messageAuth, ...) at clock reading t
ClearMessages(req, t) ==
  /\ lastReq' = req
  /\ IF messageAuth(req.cred)
     THEN LET out == clear(messages)
          IN /\ messages' = out.messages
             /\ resp' = [NoResponse EXCEPT !.status = 200, !.kind = "json",
                                           !.success = out.result.success,
                                           !.bodyMessage = out.result.message]
             /\ logged' = <<logMessage(ClearedByAdmin, t)>>
             /\ now' = t
             /\ nReq' = nReq + 1
             /\ added' = << >>
             /\ held' = [held EXCEPT !.alias = FALSE]
     ELSE /\ resp' = Unauthorized
          /\ logged' = << >>
          /\ UNCHANGED <<messages, now, nReq, added, held>>
  /\ UNCHANGED <<nextRef, nFaults, sanVars>>

\* ------------------------------------------- a consumer of getAllMessages

NotHeld == [has |-> FALSE, alias |-> FALSE, items |-> << >>, muts |-> 0]

\* The array a after the field content of the record object ref is set to c:
\* every element that is this object shows the new value.
SetContent(a, ref, c) ==
  [i \in 1..Len(a) |-> IF a[i].ref = ref THEN [a[i] EXCEPT !.content = c] ELSE a[i]]

\* A consumer calls getAllMessages and keeps the array returned.
ConsumerList ==
  /\ held' = [has |-> TRUE, muts |-> 0,
              alias |-> getAllMessages(messages).alias, items |-> getAllMessages(messages).items]
  /\ UNCHANGED <<messages, nextRef, now, nReq, nFaults, lastReq, resp, logged, added, sanVars>>

\* The consumer reverses the array it holds, in place.
ConsumerReverse ==
  /\ held.has /\ held.muts < MaxMutations /\ Len(held.items) > 1
  /\ held' = [held EXCEPT !.items = Reverse(held.items), !.muts = held.muts + 1]
  /\ messages' = IF held.alias THEN Reverse(held.items) ELSE messages
  /\ UNCHANGED <<nextRef, now, nReq, nFaults, lastReq, resp, logged, added, sanVars>>

\* The consumer removes the last element of the array it holds.
ConsumerPop ==
  /\ held.has /\ held.muts < MaxMutations /\ Len(held.items) > 0
  /\ held' = [held EXCEPT !.items = SubSeq(held.items, 1, Len(held.items) - 1), !.muts = held.muts + 1]
  /\ messages' = IF held.alias THEN SubSeq(held.items, 1, Len(held.items) - 1) ELSE messages
  /\ UNCHANGED <<nextRef, now, nReq, nFaults, lastReq, resp, logged, added, sanVars>>

\* The consumer appends an element to the array it holds.
ConsumerPush(m) ==
  /\ held.has /\ held.muts < MaxMutations
  /\ held' = [held EXCEPT !.items = Append(held.items, m), !.muts = held.muts + 1]
  /\ messages' = IF held.alias THEN Append(held.items, m) ELSE messages
  /\ UNCHANGED <<nextRef, now, nReq, nFaults, lastReq, resp, logged, added, sanVars>>

\* The consumer assigns the field content of the i-th record it holds.  The
\* record is the object the store holds: the store's arrays share it.
ConsumerSetContent(i, c) ==
  /\ held.has /\ held.muts < MaxMutations /\ i \in 1..Len(held.items)
  /\ held' = [held EXCEPT !.items = SetContent(held.items, held.items[i].ref, c), !.muts = held.muts + 1]
  /\ messages' = SetContent(messages, held.items[i].ref, c)
  /\ UNCHANGED <<nextRef, now, nReq, nFaults, lastReq, resp, logged, added, sanVars>>

\* -------------------------------------------------------- inputs of Spec

\* Values of req.body.message: absent, '', 0, 'a<', ['>'].
BodyMessages == {Undefined, Str(<< >>), Num(0), Str(<<"a", "<">>), Arr(<< <<">">> >>)}

\* The client address of a request, as the x-forwarded-for header (Undefined
\* when absent) and req.connection.remoteAddress: no header and '::1', the
\* header '<$'.
ClientAddresses ==
  {<<Undefined, Str(<<":", ":", "1">>)>>, <<Str(<<"<", "$">>), Str(<<":", ":", "1">>)>>}

PostRequests ==
  {Request("message", TRUE, m, c[1], c[2], NoCredential, "") : m \in BodyMessages, c \in ClientAddresses}
  \cup {Request("message", FALSE, Undefined, Undefined, Str(<<":", ":", "1">>), NoCredential, "")}

Credentials ==
  {NoCredential, Credential("admin", "lifelink"), Credential("admin", "admin"),
   Credential("root", "lifelink")}

AcceptHeaders == {"", "application/json", "text/html, application/json"}

TheCredential == Credential("admin", "lifelink")

ReadRequests ==
  {Request("read", FALSE, Undefined, Undefined, Undefined, c, a) : c \in Credentials, a \in AcceptHeaders}

ClearRequests ==
  {Request("clear", FALSE, Undefined, Undefined, Undefined, c, "") : c \in Credentials}

\* Random suffixes Math.random().toString(36).substr(2) yields.
Suffixes == {"4fzzzxjylrx", "k2m9"}

\* Messages of the errors a failing call throws: '<e>'.
ErrorMessages == {Str(<<"<", "e", ">">>)}

\* The runs of the intake handler in which the call of F1 throws in the try
\* block and the call of F2 in the catch block, with the random suffixes of
\* R and the clock readings <<t, u>> of TU.
Envs(F1, F2, R, TU) ==
  {[f1 |-> f1, f2 |-> f2, em |-> e, t |-> tu[1], u |-> tu[2], r1 |-> r1, r2 |-> r2] :
     f1 \in F1, f2 \in F2, e \in ErrorMessages, tu \in TU, r1 \in R, r2 \in R}

\* ------------------------------------------------------------------ Spec

InitStore ==
  /\ messages = << >>
  /\ nextRef = 0
  /\ now = 0
  /\ nReq = 0
  /\ nFaults = 0
  /\ lastReq = NoRequest
  /\ resp = NoResponse
  /\ logged = << >>
  /\ added = << >>
  /\ held = NotHeld

Init ==
  /\ InitStore
  /\ pc = "idle" /\ sanIn = Undefined /\ sanOut = Undefined

\* A POST /message request arrives, in the millisecond of the request before
\* it or in the next one; its handler reads one value of the clock and no
\* call of it throws, except the read of req.body.message when req.body is
\* undefined.
Post ==
  /\ nReq < MaxRequests
  /\ \E req \in PostRequests : \E env \in Envs({"none"}, {"none"}, {"k2m9"}, {<<now, now>>, <<now + 1, now + 1>>}) :
       PostMessage(req, env)

\* A GET /read_messages request arrives.
Read == \E req \in ReadRequests : ReadMessages(req)

\* A POST /clear_messages request arrives.
Clear ==
  /\ nReq < MaxRequests
  /\ \E req \in ClearRequests : \E t \in {now, now + 1} : ClearMessages(req, t)

Next == Post \/ Read \/ Clear

Spec == Init /\ [][Next]_vars

\* ---------------------------------------------------------- SpecSanitize

\* The characters of the strings passed to the sanitizer: the six it
\* replaces, and two it does not.
Alphabet == {"<", ">", "\"", "'", "$", ";", "&", "a"}

\* The strings of at most MaxLen characters.
Strings == UNION {[1..k -> Alphabet] : k \in 0..MaxLen}

\* The values passed to the sanitizer: strings, numbers, booleans, null,
\* undefined, arrays of strings.
SanitizeInputs ==
  {Str(x) : x \in Strings}
  \cup {Num(0), Num(42), Bool(TRUE), Bool(FALSE), Null, Undefined, Arr(<< >>)}
  \cup {Arr(<<x>>) : x \in {y \in Strings : Len(y) <= 1}}

InitSanitize ==
  /\ InitStore
  /\ pc = "input" /\ sanIn \in SanitizeInputs /\ sanOut = Undefined

\* sanitizeInput is called on the input.
CallSanitize ==
  /\ pc = "input"
  /\ sanOut' = sanitizeInput(sanIn)
  /\ pc' = "output"
  /\ UNCHANGED <<sanIn, storeVars>>

NextSanitize == CallSanitize

SpecSanitize == InitSanitize /\ [][NextSanitize]_vars

\* -------------------------------------------------------------- SpecFill

\* The store is filled beyond its capacity: the n-th request carries the
\* message 'm<n>' from the address '::1', one request per millisecond.
FillRequest == Request("message", TRUE, Str(<<"m">> \o Digits(nReq)), Undefined, Str(<<":", ":", "1">>), NoCredential, "")

\* The same request without a parsed body: its handler fails.
FillBadRequest == Request("message", FALSE, Undefined, Undefined, Str(<<":", ":", "1">>), NoCredential, "")

FillPost ==
  /\ nReq < MAX_MESSAGES + MaxOverflow
  /\ \E env \in Envs({"none"}, {"none"}, {"k2m9"}, {<<now + 1, now + 1>>}) : PostMessage(FillRequest, env)

\* A request whose handler fails and adds an ERROR entry.
FillPostFault ==
  /\ nReq < MAX_MESSAGES + MaxOverflow
  /\ nFaults < MaxFillFaults
  /\ \E env \in Envs({"none"}, {"none"}, {"k2m9"}, {<<now + 1, now + 1>>}) : PostMessage(FillBadRequest, env)

FillRead == ReadMessages(Request("read", FALSE, Undefined, Undefined, Undefined, TheCredential, "application/json"))

FillClear ==
  /\ nReq < MAX_MESSAGES + MaxOverflow
  /\ ClearMessages(Request("clear", FALSE, Undefined, Undefined, Undefined, TheCredential, ""), now + 1)

NextFill == FillPost \/ FillPostFault \/ FillRead \/ FillClear

SpecFill == Init /\ [][NextFill]_vars

\* ------------------------------------------------------------ SpecFaults

\* The intake handler in an environment whose calls may throw: addMessage,
\* logMessage or the send of the response, in the try block and in the
\* catch block, each time it is called.
FaultRequest == Request("message", TRUE, Str(<<"a", "<">>), Undefined, Str(<<":", ":", "1">>), NoCredential, "")

\* The clock readings of a run of the handler: the first one now or in the
\* next millisecond, the later ones the same or in the millisecond after.
FaultClocks == {<<now, now>>, <<now, now + 1>>, <<now + 1, now + 1>>}

\* A request whose handler meets no failing call.
FaultsPostQuiet ==
  /\ nReq < MaxRequests
  /\ \E env \in Envs({"none"}, {"none"}, Suffixes, FaultClocks) : PostMessage(FaultRequest, env)

\* A request without a parsed body; a call of the catch block may throw.
FaultsPostNoBody ==
  /\ nReq < MaxRequests
  /\ \E env \in Envs({"none"}, {"none", "add", "log", "send"}, Suffixes, {<<now + 1, now + 1>>}) :
       PostMessage(FillBadRequest, env)

\* A request whose handler meets a failing call in the try block; a call of
\* the catch block may throw too.
FaultsPostThrow ==
  /\ nReq < MaxRequests
  /\ \E env \in Envs({"add", "log", "send"}, {"none", "add", "log", "send"}, Suffixes, {<<now + 1, now + 1>>}) :
       PostMessage(FaultRequest, env)

FaultsRead == ReadMessages(Request("read", FALSE, Undefined, Undefined, Undefined, TheCredential, "application/json"))

FaultsClear ==
  /\ nReq < MaxRequests
  /\ ClearMessages(Request("clear", FALSE, Undefined, Undefined, Undefined, TheCredential, ""), now)

NextFaults == FaultsPostQuiet \/ FaultsPostNoBody \/ FaultsPostThrow \/ FaultsRead \/ FaultsClear

SpecFaults == Init /\ [][NextFaults]_vars

\* ------------------------------------------------------------ SpecLogger

\* The routes of server.js with the callbacks of the logger's writes, each
\* of which may report an error, run between the requests.
LoggerPost ==
  /\ nReq < MaxRequests
  /\ \E req \in {FaultRequest, FillBadRequest} :
       \E env \in Envs({"none"}, {"none"}, {"k2m9"}, {<<now, now>>, <<now + 1, now + 1>>}) :
         PostMessage(req, env)

LoggerRead ==
  \E accept \in {"", "application/json"} :
    ReadMessages(Request("read", FALSE, Undefined, Undefined, Undefined, TheCredential, accept))

LoggerClear ==
  /\ nReq < MaxRequests
  /\ ClearMessages(Request("clear", FALSE, Undefined, Undefined, Undefined, TheCredential, ""), now + 1)

LoggerWriteDone == \E i \in 1..Len(logged) : \E err \in BOOLEAN : WriteDone(i, err)

NextLogger == LoggerPost \/ LoggerRead \/ LoggerClear \/ LoggerWriteDone

SpecLogger == Init /\ [][NextLogger]_vars

\* ----------------------------------------------------------- SpecVariant

\* The server of src/unnamed/part_000: the intake route and its logger.
VariantPost ==
  /\ nReq < MaxRequests
  /\ \E req \in PostRequests : \E t \in {now, now + 1} : PostMessageV0(req, t)

VariantWriteDone == \E i \in 1..Len(logged) : \E err \in BOOLEAN : WriteDone(i, err)

NextVariant == VariantPost \/ VariantWriteDone

SpecVariant == Init /\ [][NextVariant]_vars

\* ---------------------------------------------------------- SpecConsumer

\* A consumer of the store's read interface beside the request handlers.
ConsumerRequest(m) == Request("message", TRUE, Str(m), Undefined, Str(<<":", ":", "1">>), NoCredential, "")

ConsumerPost ==
  /\ nReq < MaxRequests
  /\ \E m \in {<<"a">>, <<"b">>} :
       \E env \in Envs({"none"}, {"none"}, {"k2m9"}, {<<now + 1, now + 1>>}) : PostMessage(ConsumerRequest(m), env)

\* The HTML view, which reverses in place the array it got.
ConsumerReadHtml == ReadMessages(Request("read", FALSE, Undefined, Undefined, Undefined, TheCredential, ""))

ConsumerClear ==
  /\ nReq < MaxRequests
  /\ ClearMessages(Request("clear", FALSE, Undefined, Undefined, Undefined, TheCredential, ""), now + 1)

Consume ==
  \/ ConsumerList
  \/ ConsumerReverse
  \/ ConsumerPop
  \/ ConsumerPush(NewRecord(<<"x">>, now, now, "k2m9", nextRef))
  \/ \E i \in 1..Len(held.items) : ConsumerSetContent(i, <<"x">>)

NextConsumer == ConsumerPost \/ ConsumerReadHtml \/ ConsumerClear \/ Consume

SpecConsumer == Init /\ [][NextConsumer]_vars

\* ------------------------------------------------------- claims under Spec

\* The content of the record added last.
LastContent == messages[Len(messages)].content

\* C3: a GET /read_messages or POST /clear_messages request that does not
\* carry exactly the credential admin/lifelink is answered 401 with a
\* challenge, gets no records and leaves the store unchanged; one that
\* carries it is answered 200; POST /message is handled without credential.
C3_AccessPolicy ==
  /\ [](/\ (lastReq.route \in {"read", "clear"} /\ lastReq.cred # TheCredential)
            => /\ resp.status = 401
               /\ resp.challenge # ""
               /\ resp.messages = << >> /\ resp.html = << >> /\ ~resp.success
        /\ (lastReq.route \in {"read", "clear"} /\ lastReq.cred = TheCredential)
            => resp.status = 200
        /\ lastReq.route = "message"
            => ~lastReq.cred.present /\ resp.status \in {200, 500})
  /\ [][(lastReq'.route \in {"read", "clear"} /\ lastReq'.cred # TheCredential)
          => messages' = messages]_vars

\* C3 witness: a clear request with the right user and a wrong password was
\* answered 401 while the store held a record.
C3_Witness ==
  /\ lastReq.route = "clear" /\ lastReq.cred = Credential("admin", "admin")
  /\ resp.status = 401 /\ Len(messages) > 0

\* C4: an authorized clear, on an empty store too, leaves the store empty
\* and reports success, the list right after it is empty, and the add that
\* follows it leaves the store holding exactly the one new record.
C4_Clear ==
  /\ []((lastReq.route = "clear" /\ resp.status = 200)
          => /\ messages = << >>
             /\ resp.success /\ resp.bodyMessage = "Message store cleared"
             /\ getAllMessages(messages).items = << >>)
  /\ [][(lastReq.route = "clear" /\ resp.status = 200 /\ lastReq'.route = "message")
          => /\ Len(messages') = 1
             /\ messages'[1].ref = nextRef
             /\ (resp'.status = 200 => messages'[1].content = LogEntryOf(lastReq'))]_vars

\* C4 witness: a record was added after a clear (of the empty store).
C4_Witness ==
  /\ lastReq.route = "message" /\ resp.status = 200
  /\ nReq = 2 /\ nextRef = 1 /\ Len(messages) = 1

\* C5: no record stored by the intake handler holds a literal < or >.
C5_NoAngleBrackets ==
  \A i \in 1..Len(messages) :
    ~Includes(messages[i].content, "<") /\ ~Includes(messages[i].content, ">")

\* C9: the intake handler stores the placeholder line exactly when the
\* message field is absent, and the sanitized supplied value when the field
\* is present.
C9_PlaceholderIffAbsent ==
  (lastReq.route = "message" /\ lastReq.hasBody /\ resp.status = 200)
    => LET ip == TemplateText(sanitizeInput(Or(lastReq.xff, lastReq.remote)))
       IN IF lastReq.message = Undefined
          THEN LastContent = IpPrefix \o ip \o MessageInfix \o Placeholder
          ELSE LastContent = IpPrefix \o ip \o MessageInfix \o TemplateText(sanitizeInput(lastReq.message))

\* C10: an authorized read answers 200 with every record held: as JSON, the
\* id, timestamp and content of each record, oldest first; rendered, the
\* timestamp and content of each record, newest first.
C10_ReadFormats ==
  (lastReq.route = "read" /\ lastReq.cred = TheCredential)
    => /\ resp.status = 200
       /\ IF AcceptsJson(lastReq.accept)
          THEN /\ resp.kind = "json"
               /\ Len(resp.messages) = Len(messages)
               /\ \A i \in 1..Len(messages) :
                    /\ resp.messages[i].id = messages[i].id
                    /\ resp.messages[i].timestamp = messages[i].timestamp
                    /\ resp.messages[i].content = messages[i].content
          ELSE /\ resp.kind = "html"
               /\ Len(resp.html) = Len(messages)
               /\ \A i \in 1..Len(messages) :
                    /\ resp.html[i].timestamp = messages[Len(messages) + 1 - i].timestamp
                    /\ resp.html[i].content = messages[Len(messages) + 1 - i].content

\* C10 witness: the rendered view of a store of two different records.
C10_Witness ==
  /\ lastReq.route = "read" /\ resp.kind = "html"
  /\ Len(resp.html) = 2 /\ resp.html[1] # resp.html[2]

\* ----------------------------------------------- claims under SpecSanitize

\* The characters sanitizeInput replaces.
Dangerous == {"<", ">", "\"", "'", "$", ";"}

\* C6: sanitizing a string that holds none of < > " ' $ ; returns it unchanged.
C6_SafeStringUnchanged ==
  (pc = "output" /\ IsString(sanIn) /\ \A i \in 1..Len(sanIn.s) : sanIn.s[i] \notin Dangerous)
    => sanOut = sanIn

\* C6 witness: the string 'a&a' was sanitized.
C6_Witness == pc = "output" /\ sanIn = Str(<<"a", "&", "a">>) /\ sanOut = Str(<<"a", "&", "a">>)

\* --------------------------------------------------- claims under SpecFill

\* The last n elements of a sequence (all of it when it is shorter).
LastOf(a, n) == IF Len(a) <= n THEN a ELSE SubSeq(a, Len(a) - n + 1, Len(a))

\* C1: the store never holds more than MAX_MESSAGES records, ERROR entries
\* included.
C1_Capacity == Len(messages) <= MAX_MESSAGES

\* C1 witness: a full store whose last record is an ERROR entry that evicted
\* a record.
C1_Witness ==
  /\ Len(messages) = MAX_MESSAGES /\ Len(added) > MAX_MESSAGES
  /\ Head(messages[Len(messages)].content) = "ERROR: "

\* C2: the store, and the list an authorized read returns, hold exactly the
\* last MAX_MESSAGES records added since the last clear, oldest first, and
\* an add to a full store evicts exactly the oldest record.
C2_FifoEviction ==
  /\ [](/\ messages = LastOf(added, MAX_MESSAGES)
        /\ (lastReq.route = "read" /\ Len(added) > MAX_MESSAGES)
             => /\ Len(resp.messages) = MAX_MESSAGES
                /\ \A i \in 1..MAX_MESSAGES :
                     /\ resp.messages[i].content = added[Len(added) - MAX_MESSAGES + i].content
                     /\ resp.messages[i].id = added[Len(added) - MAX_MESSAGES + i].id)
  /\ [][(Len(messages) = MAX_MESSAGES /\ Len(added') = Len(added) + 1)
          => messages' = Append(Tail(messages), added'[Len(added')])]_vars

\* C2 witness: 21 records m0..m20 were added and the list read holds m1..m20.
C2_Witness ==
  /\ lastReq.route = "read" /\ Len(added) = MAX_MESSAGES + 1 /\ nFaults = 0
  /\ resp.messages[1].content = <<"IP: ", ":", ":", "1", " | Message: ", "m", "1">>
  /\ resp.messages[MAX_MESSAGES].content = <<"IP: ", ":", ":", "1", " | Message: ", "m", "2", "0">>
  /\ \A i \in 1..Len(messages) : messages[i].content # added[1].content

\* ------------------------------------------------- claims under SpecFaults

\* The handler run of the request handled last met a failure: it wrote the
\* error caught to the error stream.
LastRunFailed == lastReq.route = "message" /\ logged # << >> /\ logged[1].ch = "stderr"

\* C8: when a step of the intake sequence fails, the handler adds the entry
\* 'ERROR: ' followed by the sanitized error message and answers 500 with
\* { status: 'error', message: 'Failed to process message' }; the failure
\* does not leave the handler.
C8_FailureHandled ==
  LastRunFailed
    => /\ resp = JsonStatus(500, "error", "Failed to process message")
       /\ Len(messages) > 0
       /\ LastContent = ErrorPrefix \o sanitizeInput(Str(logged[1].message)).s

\* ----------------------------------------------- claims under SpecConsumer

\* C7: no mutation of an array returned by getAllMessages changes the store,
\* and no add or clear on the store changes an array returned before.
C7_IndependentCopy ==
  /\ [][(held.has /\ held'.muts > held.muts) => messages' = messages]_vars
  /\ [][(held.has /\ messages' # messages /\ held'.muts = held.muts) => held'.items = held.items]_vars

\* C11: when the intake handler answers 200 the record of the request's
\* combined line is in the store, and an authorized read returns every
\* record among the last MAX_MESSAGES added since the last clear.
C11_AckAfterStore ==
  /\ []((lastReq.route = "message" /\ resp.status = 200)
          => /\ Len(messages) > 0 /\ Len(added) > 0
             /\ LastContent = LogEntryOf(lastReq)
             /\ added[Len(added)] = messages[Len(messages)])
  /\ [](lastReq.route = "read"
          => \A i \in 1..Len(added) :
               Len(added) - i < MAX_MESSAGES
                 => \E j \in 1..Len(resp.messages) :
                      /\ resp.messages[j].content = added[i].content
                      /\ resp.messages[j].id = added[i].id)

\* C11 witness: the line of the first request, acknowledged, is still in the
\* list read after MAX_MESSAGES - 1 further additions.
C11_Witness ==
  /\ lastReq.route = "read" /\ Len(added) = MAX_MESSAGES /\ nReq = MAX_MESSAGES /\ nFaults = 0
  /\ resp.messages[1].content = <<"IP: ", ":", ":", "1", " | Message: ", "m", "0">>

\* C14 as stated: every successful retrieval, JSON or rendered, reports the
\* current record count and the capacity alongside the list.
C14_CountAndCapacity ==
  (lastReq.route = "read" /\ resp.status = 200)
    => (resp.count = Len(messages) /\ resp.capacity = MAX_MESSAGES)

\* C14 amended: the rendered view reports the record count and the capacity
\* MAX_MESSAGES in its heading; the JSON body holds the messages array alone,
\* with as many records as the store and no capacity.
C14_CountAndCapacityRendered ==
  (lastReq.route = "read" /\ resp.status = 200)
    => IF AcceptsJson(lastReq.accept)
       THEN resp.kind = "json" /\ resp.capacity = 0 /\ resp.count = 0
            /\ Len(resp.messages) = Len(messages)
       ELSE resp.kind = "html" /\ resp.count = Len(messages)
            /\ resp.capacity = MAX_MESSAGES

\* C14 witness: a rendered view of two records, headed 2/20.
C14_Witness ==
  /\ lastReq.route = "read" /\ resp.status = 200 /\ ~AcceptsJson(lastReq.accept)
  /\ resp.count = 2 /\ resp.capacity = MAX_MESSAGES /\ Len(messages) = 2

\* C16: no step of a handler changes the id, timestamp or content of a
\* record the store holds before and after it, and the store's array after
\* the step is the array before, the empty array, or the array before
\* (without its oldest record when it was full) with new records appended.
C16_RecordsImmutable ==
  [][/\ \A i \in 1..Len(messages) : \A j \in 1..Len(messages') :
          messages[i].ref = messages'[j].ref => messages[i] = messages'[j]
     /\ \/ messages' = messages
        \/ messages' = << >>
        \/ /\ Len(messages') = Len(messages) + 1
           /\ SubSeq(messages', 1, Len(messages)) = messages
           /\ messages'[Len(messages')].ref = nextRef
        \/ /\ Len(messages) = MAX_MESSAGES /\ Len(messages') = MAX_MESSAGES
           /\ SubSeq(messages', 1, MAX_MESSAGES - 1) = Tail(messages)
           /\ messages'[MAX_MESSAGES].ref = nextRef]_vars

\* C16 witness: a read of a store of two records, which holds the record
\* inserted first in first place and returns its content.
C16_Witness ==
  /\ lastReq.route = "read" /\ resp.kind = "json" /\ Len(messages) = 2
  /\ messages[1].ref = 0 /\ messages[2].ref = 1
  /\ resp.messages[1].content = messages[1].content

\* ----------------------------------- further claims under SpecSanitize

\* The escape sequence of a character: its own for each of < > " ' $ ;
\* and the character itself otherwise.
EscapeOf(c) ==
  CASE c = "<" -> <<"&", "l", "t", ";">>
    [] c = ">" -> <<"&", "g", "t", ";">>
    [] c = "\"" -> <<"&", "q", "u", "o", "t", ";">>
    [] c = "'" -> <<"&", "#", "3", "9", ";">>
    [] c = "$" -> <<"&", "#", "3", "6", ";">>
    [] c = ";" -> <<"&", "#", "5", "9", ";">>
    [] OTHER -> <<c>>

RECURSIVE SinglePass(_)
\* The character-by-character substitution of a string.
SinglePass(s) == IF s = << >> THEN << >> ELSE EscapeOf(Head(s)) \o SinglePass(Tail(s))

\* C12: the sanitized string is the character-by-character substitution of
\* the input; no escape sequence is escaped again.
C12_SinglePass ==
  (pc = "output" /\ IsString(sanIn)) => sanOut = Str(SinglePass(sanIn.s))

\* C15: sanitizeInput returns a string for every input value.
C15_Total == pc = "output" => IsString(sanOut)

\* ------------------------------------- further claims under SpecFaults

\* C17: the records the store holds have pairwise distinct ids.
C17_DistinctIds ==
  \A i \in 1..Len(messages) : \A j \in 1..Len(messages) :
    i # j => messages[i].id # messages[j].id

\* The contents of the records a step added at the end of the store's
\* array, below MAX_MESSAGES records.
AddedByStep ==
  LET n == Len(messages') - Len(messages)
  IN [i \in 1..n |-> messages'[Len(messages) + i].content]

\* C20 as stated: a run of the intake handler that is answered adds exactly
\* one record.
C20_ExactlyOneRecord ==
  [][(lastReq'.route = "message" /\ nReq' = nReq + 1 /\ resp'.status \in {200, 500})
       => Len(messages') = Len(messages) + 1]_vars

\* C20 amended: a run answered 200 adds one record, the combined line; a run
\* answered 500 adds the ERROR entry, after the combined line when the call
\* that failed came after addMessage.  The records held before stay.
C20_RecordsPerRun ==
  [][(lastReq'.route = "message" /\ nReq' = nReq + 1 /\ resp'.status \in {200, 500})
       => /\ Len(messages') >= Len(messages)
          /\ SubSeq(messages', 1, Len(messages)) = messages
          /\ nextRef' - nextRef = Len(messages') - Len(messages)
          /\ resp'.status = 200 => AddedByStep = <<LogEntryOf(lastReq')>>
          /\ resp'.status = 500
               => \E e \in ErrorMessages \cup {Str(BodyTypeError)} :
                    \/ AddedByStep = <<ErrorMsgOf(e)>>
                    \/ AddedByStep = <<LogEntryOf(lastReq'), ErrorMsgOf(e)>>]_vars

\* C20 witness: a run answered 500 that left the combined line and the ERROR
\* entry in the store.
C20_Witness ==
  /\ lastReq.route = "message" /\ resp.status = 500 /\ nReq = 1 /\ nextRef = 2
  /\ Len(messages) = 2
  /\ messages[1].content = LogEntryOf(lastReq)
  /\ messages[2].content = ErrorMsgOf(Str(<<"<", "e", ">">>))

\* -------------------------------------------- claims under SpecLogger

\* A step that runs the callback of a pending write.
IsWriteDone ==
  \E i \in 1..Len(logged) :
    /\ logged[i].write = "pending"
    /\ Len(logged') >= i /\ logged'[i].write \in {"written", "failed"}

\* C18: the callback of a log write, with or without an error, leaves the
\* response of the request and the store as they were; a request is answered
\* while its write is pending, and its answer and the store are those of the
\* handler whatever became of the write.
C18_WriteFailureIgnored ==
  /\ [][IsWriteDone => (resp' = resp /\ messages' = messages /\ lastReq' = lastReq)]_vars
  /\ []((lastReq.route = "message" /\ lastReq = FaultRequest)
          => /\ resp = JsonStatus(200, "success", "Message received and logged")
             /\ LastContent = LogEntryOf(lastReq))
  /\ []((lastReq.route = "message" /\ lastReq = FillBadRequest)
          => /\ resp = JsonStatus(500, "error", "Failed to process message")
             /\ LastContent = ErrorMsgOf(Str(BodyTypeError)))

\* C18 witness: a request answered 200 whose log write failed, the failure
\* printed on the error stream, its line in the store.
C18_Witness ==
  /\ lastReq = FaultRequest /\ resp.status = 200
  /\ Len(logged) = 2 /\ logged[1].write = "failed" /\ logged[2].ch = "stderr"
  /\ LastContent = LogEntryOf(lastReq)

\* ------------------------------------------- claims under SpecVariant

\* C19: the intake handler of part_000 answers a request with a string
\* message 200 'Message received and logged' and passes its combined line to
\* the logger.
C19_VariantAccepts ==
  (lastReq.route = "message" /\ lastReq.hasBody /\ IsString(lastReq.message))
    => /\ resp = JsonStatus(200, "success", "Message received and logged")
       /\ \E i \in 1..Len(logged) :
            logged[i].ch = "messages.log" /\ logged[i].message = LogEntryOf(lastReq)

====
